---- MODULE Spec2Model ----
(***************************************************************************)
(* Mystery Mansion (game.py): the seeded scenario generator of Game and    *)
(* the exploration operations of a session, as a state machine.            *)
(*                                                                         *)
(* Objects are referred to by their codes: a Furniture by its 3-digit      *)
(* code, a Room by its 2-digit code.  Python's None is None for the card   *)
(* fields, NoCode for a reference to a Furniture, and the empty sequence   *)
(* for an optional object (Furniture.note, Note.secret).                   *)
(***************************************************************************)
EXTENDS Integers, Sequences, FiniteSets, TLC

VARIABLES
    pc,               \* position of the process: main, the steps of Game.__init__, the loop of start
    winsound_loaded,  \* whether the module imported winsound (Windows with ENABLE_AUDIO)
    rng,              \* state of the global generator of module random
    seed,             \* Game.seed
    clues_found,      \* Game.clues_found
    rooms,            \* Game.rooms: room code -> Room
    furniture,        \* Game.furniture: furniture code -> Furniture
    result,           \* what the last operation of the session reported
    prev,             \* the scenario built by the previous run of the program
    fill              \* the locals of furnish_rooms_smart while its loop is followed step by step

vars ==
    <<pc, winsound_loaded, rng, seed, clues_found, rooms, furniture, result, prev,
      fill>>

-----------------------------------------------------------------------------
(* Bounds of the model *)

\* game numbers tried by the generation-only specification
MaxGenSeed == 40

\* game numbers tried by the specification of a whole session
MaxPlaySeed == 1

-----------------------------------------------------------------------------
(* The catalog *)

None == "None"
NoCode == 0

items == <<"Tape", "Letter", "Photos", "Map">>

people == <<"Cook", "Chauffeur", "Maid", "Butler">>

\* keys of the furniture dict, in insertion order
furniture_keys ==
    <<111, 112, 113, 114, 121, 122, 123, 124, 131, 132, 133, 134,
      141, 142, 143, 144, 211, 212, 213, 214, 221, 222, 223, 224,
      231, 232, 233, 234, 241, 242, 243, 244, 311, 312, 313>>

FurnitureCodes == {furniture_keys[i] : i \in 1..Len(furniture_keys)}

\* room_names with one Dining Room Chair only: 17 anchored codes
room_names_one_chair ==
    <<[name |-> "Living Room", furniture |-> <<121, 122>>],
      [name |-> "Bed Room",    furniture |-> <<123, 124>>],
      [name |-> "Kitchen",     furniture |-> <<132, 133, 134, 141>>],
      [name |-> "Music Room",  furniture |-> <<213>>],
      [name |-> "Game Room",   furniture |-> <<142, 143>>],
      [name |-> "Study",       furniture |-> <<131>>],
      [name |-> "Library",     furniture |-> <<144>>],
      [name |-> "Dining Room", furniture |-> <<111, 113>>],
      [name |-> "Gym",         furniture |-> <<211, 212>>]>>

\* the Room templates of build_rooms, in list order
room_names ==
    <<[name |-> "Living Room", furniture |-> <<121, 122>>],
      [name |-> "Bed Room",    furniture |-> <<123, 124>>],
      [name |-> "Kitchen",     furniture |-> <<132, 133, 134, 141>>],
      [name |-> "Music Room",  furniture |-> <<213>>],
      [name |-> "Game Room",   furniture |-> <<142, 143>>],
      [name |-> "Study",       furniture |-> <<131>>],
      [name |-> "Library",     furniture |-> <<144>>],
      [name |-> "Dining Room", furniture |-> <<111, 112, 113>>],
      [name |-> "Gym",         furniture |-> <<211, 212>>]>>

room_numbers == <<11, 12, 13, 14, 21, 22, 23, 24, 31>>

RoomCodes == {room_numbers[i] : i \in 1..Len(room_numbers)}

\* a fresh Note()
Note ==
    [money |-> FALSE, ask |-> FALSE, item |-> None, person |-> None,
     clue |-> FALSE, trapdoor |-> FALSE, secret |-> <<>>,
     not_in |-> NoCode, look_in |-> NoCode]

\* the dict made by build_furniture: every Furniture has its code and note None
build_furniture == [c \in FurnitureCodes |-> [code |-> c, note |-> <<>>]]

-----------------------------------------------------------------------------
(* Lists and loops *)

Range(s) == {s[i] : i \in 1..Len(s)}

\* list.remove(x): drops the first occurrence of x
ListRemove(s, x) ==
    LET i == CHOOSE k \in 1..Len(s) :
                 s[k] = x /\ \A m \in 1..(k - 1) : s[m] # x
    IN  SubSeq(s, 1, i - 1) \o SubSeq(s, i + 1, Len(s))

\* list.pop(): the last element, and the list without it
PopItem(s) == s[Len(s)]

PopRest(s) == SubSeq(s, 1, Len(s) - 1)

\* e, evaluated once v has been: statements run in order, each on the values
\* the one before it left (TLC would otherwise delay v until e reads it)
Then(v, e) == IF v = v THEN e ELSE e

\* "for k in lo..hi: st = Body(st, k)": the iterations run in order; the range
\* is halved rather than peeled so that the evaluation stays shallow
RECURSIVE ForRange(_, _, _, _)
ForRange(Body(_, _), lo, hi, st) ==
    IF lo > hi THEN st
    ELSE IF lo = hi THEN Body(st, lo)
    ELSE LET mid == (lo + hi) \div 2
             first == ForRange(Body, lo, mid, st)
         IN  Then(first, ForRange(Body, mid + 1, hi, first))

-----------------------------------------------------------------------------
(* Module random.  The generator is one global state; every draw reads it  *)
(* and advances it.  Each operator returns the value drawn and the state   *)
(* left behind.  The generator itself is a 16-bit linear congruential one  *)
(* standing for the library's.                                             *)

\* random.seed(seed)
RandomSeed(s) == (s * 40503 + 9301) % 65536

RngNext(r) == (r * 25173 + 13849) % 65536

\* _randbelow(n): a number in 0..n-1
RandBelow(n, r) ==
    LET r2 == RngNext(r)
    IN  [val |-> (r2 * n) \div 65536, rng |-> r2]

\* random.randrange(start, stop)
RandRange(start, stop, r) ==
    LET d == RandBelow(stop - start, r)
    IN  [val |-> start + d.val, rng |-> d.rng]

\* random.choice(seq)
RandomChoice(s, r) ==
    LET d == RandBelow(Len(s), r)
    IN  [val |-> s[d.val + 1], rng |-> d.rng]

\* the body of shuffle's loop: j = randbelow(i+1); x[i], x[j] = x[j], x[i]
\* (i counts the elements up to and including position i)
ShuffleStep(st, i) ==
    LET d == RandBelow(i, st.rng)
        j == d.val + 1
    IN  [val |-> [st.val EXCEPT ![i] = st.val[j], ![j] = st.val[i]],
         rng |-> d.rng]

\* random.shuffle(x): for i in reversed(range(1, len(x)))
RandomShuffle(x, r) ==
    ForRange(LAMBDA st, k : ShuffleStep(st, Len(x) - k + 1),
             1, Len(x) - 1, [val |-> x, rng |-> r])

\* the body of sample's loop: j = randbelow(n-i); result[i] = pool[j];
\* pool[j] = pool[n-i-1]
SampleStep(st, i) ==
    LET n == Len(st.pool) - (i - 1)
        d == RandBelow(n, st.rng)
        j == d.val + 1
    IN  [pool |-> [st.pool EXCEPT ![j] = st.pool[n]],
         val |-> Append(st.val, st.pool[j]),
         rng |-> d.rng]

\* random.sample(population, k), the pool branch taken for small populations
RandomSample(population, k, r) ==
    LET st == ForRange(SampleStep, 1, k,
                       [pool |-> population, val |-> <<>>, rng |-> r])
    IN  [val |-> st.val, rng |-> st.rng]

-----------------------------------------------------------------------------
(* Game.__init__: the steps that build the scenario *)

\* Game.build_rooms: shuffle the templates, zip them with the room numbers
build_rooms(r) ==
    LET sh == RandomShuffle(room_names, r)
    IN  [val |-> [c \in RoomCodes |->
                    LET i == CHOOSE k \in 1..Len(room_numbers) : room_numbers[k] = c
                    IN  [name |-> sh.val[i].name, code |-> c,
                         furniture |-> sh.val[i].furniture, locked |-> FALSE]],
         rng |-> sh.rng]

\* lock_rooms without "room_numbers.remove(11)"
lock_rooms_any(rms, r) ==
    LET count == RandRange(1, 3, r)
        room_numbers_to_lock == RandomSample(room_numbers, count.val, count.rng)
    IN  [val |-> [c \in RoomCodes |->
                    IF c \in Range(room_numbers_to_lock.val)
                    THEN [rms[c] EXCEPT !.locked = TRUE]
                    ELSE rms[c]],
         rng |-> room_numbers_to_lock.rng]

\* Game.lock_rooms: lock a sample of 1 or 2 of the rooms other than 11
lock_rooms(rms, r) ==
    LET numbers == ListRemove(room_numbers, 11)
        count == RandRange(1, 3, r)
        room_numbers_to_lock == RandomSample(numbers, count.val, count.rng)
    IN  [val |-> [c \in RoomCodes |->
                    IF c \in Range(room_numbers_to_lock.val)
                    THEN [rms[c] EXCEPT !.locked = TRUE]
                    ELSE rms[c]],
         rng |-> room_numbers_to_lock.rng]

\* the nested loop of furnish_rooms_smart that removes the used furniture
RemoveUsed(keys, rms, order) ==
    ForRange(LAMBDA s, k :
                 ForRange(LAMBDA t, m : ListRemove(t, rms[order[k]].furniture[m]),
                          1, Len(rms[order[k]].furniture), s),
             1, Len(order), keys)

\* FillRoom with "<= 4" in place of "< 4"
FillRoomUpToFive(st, c) ==
    IF Len(st.rooms[c].furniture) <= 4 /\ Len(st.furniture_to_use) > 0
    THEN [rooms |-> [st.rooms EXCEPT ![c].furniture =
                         Append(@, PopItem(st.furniture_to_use))],
          furniture_to_use |-> PopRest(st.furniture_to_use)]
    ELSE st

\* FillRoom with "insert(0, ...)" in place of "append(...)"
FillRoomInFront(st, c) ==
    IF Len(st.rooms[c].furniture) < 4 /\ Len(st.furniture_to_use) > 0
    THEN [rooms |-> [st.rooms EXCEPT ![c].furniture =
                         <<PopItem(st.furniture_to_use)>> \o @],
          furniture_to_use |-> PopRest(st.furniture_to_use)]
    ELSE st

\* FillRoom with "< 3" in place of "< 4"
FillRoomUpToThree(st, c) ==
    IF Len(st.rooms[c].furniture) < 3 /\ Len(st.furniture_to_use) > 0
    THEN [rooms |-> [st.rooms EXCEPT ![c].furniture =
                         Append(@, PopItem(st.furniture_to_use))],
          furniture_to_use |-> PopRest(st.furniture_to_use)]
    ELSE st

\* the body of "for room in rooms_to_use": a room with fewer than 4 pieces
\* takes the last of the furniture left, if any is left
FillRoom(st, c) ==
    IF Len(st.rooms[c].furniture) < 4 /\ Len(st.furniture_to_use) > 0
    THEN [rooms |-> [st.rooms EXCEPT ![c].furniture =
                         Append(@, PopItem(st.furniture_to_use))],
          furniture_to_use |-> PopRest(st.furniture_to_use)]
    ELSE st

\* one pass of "for room in rooms_to_use"
Sweep(st, order) ==
    ForRange(LAMBDA t, k : FillRoom(t, order[k]), 1, Len(order), st)

\* "while (len(furniture_to_use) > 0)"
RECURSIVE FillLoop(_, _)
FillLoop(st, order) ==
    IF Len(st.furniture_to_use) > 0
    THEN FillLoop(Sweep(st, order), order)
    ELSE st.rooms

\* Game.furnish_rooms_smart
furnish_rooms_smart(rms, r) ==
    LET unused == RemoveUsed(furniture_keys, rms, room_numbers)
        furniture_to_use == RandomShuffle(unused, r)
        rooms_to_use == RandomShuffle(room_numbers, furniture_to_use.rng)
    IN  Then(<<furniture_to_use, rooms_to_use>>,
             [val |-> FillLoop([rooms |-> rms,
                                furniture_to_use |-> furniture_to_use.val],
                               rooms_to_use.val),
              rng |-> rooms_to_use.rng])

\* Room.contains_furniture
contains_furniture(room, furniture_number) ==
    furniture_number \in Range(room.furniture)

\* Game.find_furniture: the first room, in dict order, that contains the piece
find_furniture(rms, furniture_number) ==
    LET hits == {k \in 1..Len(room_numbers) :
                    contains_furniture(rms[room_numbers[k]], furniture_number)}
    IN  IF hits = {} THEN NoCode
        ELSE room_numbers[CHOOSE k \in hits : \A m \in hits : k <= m]

\* "The money is not in the {0}.".format(name)
SecretText(name) == <<"The money is not in the ", name, ".">>

\* PlaceNote with furniture_to_use[-1] in place of furniture_to_use.pop()
PlaceNoteNoPop(st, note) ==
    [st EXCEPT !.furniture[PopItem(st.furniture_to_use)].note = <<note>>]

\* "furniture_to_use.pop().note = note", on the state of build_notes
PlaceNote(st, note) ==
    [st EXCEPT !.furniture[PopItem(st.furniture_to_use)].note = <<note>>,
               !.furniture_to_use = PopRest(st.furniture_to_use)]

\* one "You found a clue!" note; its piece joins clue_furniture
ClueNote(st) ==
    LET piece == PopItem(st.furniture_to_use)
        placed == PlaceNote(st, [Note EXCEPT !.clue = TRUE])
    IN  [placed EXCEPT !.clue_furniture = Append(@, piece)]

\* TrapdoorNote without "note = Note()": the object of the last clue note is
\* written to again
TrapdoorNoteOnClueNote(st) ==
    PlaceNote(st, [Note EXCEPT !.clue = TRUE, !.trapdoor = TRUE])

\* the trapdoor
TrapdoorNote(st) == PlaceNote(st, [Note EXCEPT !.trapdoor = TRUE])

\* SecretNote that draws the room from all the rooms
SecretNoteAnyRoom(st, rms, nonmoney_rooms) ==
    LET coin == RandomChoice(<<TRUE, FALSE>>, st.rng)
        card == IF coin.val THEN RandomChoice(items, coin.rng)
                ELSE RandomChoice(people, coin.rng)
        room == RandomChoice(room_numbers, card.rng)
        note == [Note EXCEPT !.ask = TRUE,
                             !.item = IF coin.val THEN card.val ELSE None,
                             !.person = IF coin.val THEN None ELSE card.val,
                             !.secret = SecretText(rms[room.val].name)]
    IN  PlaceNote([st EXCEPT !.rng = room.rng], note)

\* SecretNote without the coin: both an item and a person are drawn
SecretNoteAsksBoth(st, rms, nonmoney_rooms) ==
    LET item == RandomChoice(items, st.rng)
        person == RandomChoice(people, item.rng)
        room == RandomChoice(nonmoney_rooms, person.rng)
        note == [Note EXCEPT !.ask = TRUE,
                             !.item = item.val,
                             !.person = person.val,
                             !.secret = SecretText(rms[room.val].name)]
    IN  PlaceNote([st EXCEPT !.rng = room.rng], note)

\* one secret note: asks for an item or for a person, names a room without the money
SecretNote(st, rms, nonmoney_rooms) ==
    LET coin == RandomChoice(<<TRUE, FALSE>>, st.rng)
        card == IF coin.val THEN RandomChoice(items, coin.rng)
                ELSE RandomChoice(people, coin.rng)
        room == RandomChoice(nonmoney_rooms, card.rng)
        note == [Note EXCEPT !.ask = TRUE,
                             !.item = IF coin.val THEN card.val ELSE None,
                             !.person = IF coin.val THEN None ELSE card.val,
                             !.secret = SecretText(rms[room.val].name)]
    IN  PlaceNote([st EXCEPT !.rng = room.rng], note)

\* the "2-item, normal clue"
AskClueNote(st) ==
    LET item == RandomChoice(items, st.rng)
        person == RandomChoice(people, item.rng)
    IN  PlaceNote([st EXCEPT !.rng = person.rng],
                  [Note EXCEPT !.ask = TRUE, !.item = item.val,
                               !.person = person.val, !.clue = TRUE])

\* NotInNote that draws the piece from all the furniture
NotInNoteAnyPiece(st, nonmoney_furniture) ==
    LET target == RandomChoice(furniture_keys, st.rng)
    IN  PlaceNote([st EXCEPT !.rng = target.rng],
                  [Note EXCEPT !.not_in = target.val])

\* one "The money is not in the ___" note
NotInNote(st, nonmoney_furniture) ==
    LET target == RandomChoice(nonmoney_furniture, st.rng)
    IN  PlaceNote([st EXCEPT !.rng = target.rng],
                  [Note EXCEPT !.not_in = target.val])

\* LookInNote that draws the piece from all the furniture
LookInNoteAnyPiece(st) ==
    LET target == RandomChoice(furniture_keys, st.rng)
    IN  PlaceNote([st EXCEPT !.rng = target.rng],
                  [Note EXCEPT !.look_in = target.val])

\* one "Look in the ___ for a clue" note
LookInNote(st) ==
    LET target == RandomChoice(st.clue_furniture, st.rng)
    IN  PlaceNote([st EXCEPT !.rng = target.rng],
                  [Note EXCEPT !.look_in = target.val])

\* Game.build_notes
build_notes(rms, furn, r) ==
    LET furniture_to_use == RandomShuffle(furniture_keys, r)
        money_furniture == PopItem(furniture_to_use.val)
        money_room == find_furniture(rms, money_furniture)
        item == RandomChoice(items, furniture_to_use.rng)
        person == RandomChoice(people, item.rng)
        money_note == [Note EXCEPT !.money = TRUE, !.ask = TRUE,
                                   !.item = item.val, !.person = person.val]
        nonmoney_furniture == ListRemove(furniture_keys, money_furniture)
        nonmoney_rooms == ListRemove(room_numbers, money_room)
        s1 == PlaceNote([furniture_to_use |-> furniture_to_use.val,
                         rng |-> person.rng,
                         furniture |-> furn,
                         clue_furniture |-> <<>>], money_note)
        s2 == ForRange(LAMBDA st, i : ClueNote(st), 1, 11, s1)
        s3 == TrapdoorNote(s2)
        s4 == ForRange(LAMBDA st, i : SecretNote(st, rms, nonmoney_rooms), 1, 2, s3)
        s5 == AskClueNote(s4)
        s6 == ForRange(LAMBDA st, i : NotInNote(st, nonmoney_furniture), 1, 6, s5)
        s7 == ForRange(LAMBDA st, i : LookInNote(st), 1, 4, s6)
    IN  Then(<<s1, s2, s3, s4, s5, s6>>,
             [val |-> s7.furniture, rng |-> s7.rng,
              unused |-> Len(s7.furniture_to_use)])

-----------------------------------------------------------------------------
(* The process *)

\* states the generator of module random can be in when the program starts
RngStart == {0, 1, 40000}

\* nothing reported yet
NoResult == [op |-> "none", arg |-> NoCode, kind |-> "none", answers |-> <<>>]

\* the scenario a run has built
Scenario == [seed |-> seed, rooms |-> rooms, furniture |-> furniture]

Init ==
    /\ pc = "main"
    /\ winsound_loaded \in BOOLEAN
    /\ rng \in RngStart
    /\ seed = 0
    /\ clues_found = 0
    /\ rooms = <<>>
    /\ furniture = <<>>
    /\ result = NoResult
    /\ prev = <<>>
    /\ fill = <<>>

\* GameInit without "random.seed(seed)"
GameInitNoSeed(sd) ==
    /\ pc = "main"
    /\ clues_found' = 0
    /\ seed' = sd
    /\ furniture' = build_furniture
    /\ pc' = "build_rooms"
    /\ UNCHANGED <<winsound_loaded, rng, rooms, result, prev, fill>>

\* Game.__init__ up to build_furniture: the counter, the seed, the catalog
GameInit(sd) ==
    /\ pc = "main"
    /\ clues_found' = 0
    /\ seed' = sd
    /\ rng' = RandomSeed(sd)
    /\ furniture' = build_furniture
    /\ pc' = "build_rooms"
    /\ UNCHANGED <<winsound_loaded, rooms, result, prev, fill>>

\* self.build_rooms()
CallBuildRooms ==
    /\ pc = "build_rooms"
    /\ LET b == build_rooms(rng)
       IN  rooms' = b.val /\ rng' = b.rng
    /\ pc' = "lock_rooms"
    /\ UNCHANGED <<winsound_loaded, seed, clues_found, furniture, result, prev, fill>>

\* self.lock_rooms()
CallLockRooms ==
    /\ pc = "lock_rooms"
    /\ LET b == lock_rooms(rooms, rng)
       IN  rooms' = b.val /\ rng' = b.rng
    /\ pc' = "furnish_rooms_smart"
    /\ UNCHANGED <<winsound_loaded, seed, clues_found, furniture, result, prev, fill>>

\* self.furnish_rooms_smart()
CallFurnishRoomsSmart ==
    /\ pc = "furnish_rooms_smart"
    /\ LET b == furnish_rooms_smart(rooms, rng)
       IN  rooms' = b.val /\ rng' = b.rng
    /\ pc' = "build_notes"
    /\ UNCHANGED <<winsound_loaded, seed, clues_found, furniture, result, prev, fill>>

\* self.build_notes(); Game(seed) returns to main
CallBuildNotes ==
    /\ pc = "build_notes"
    /\ LET b == build_notes(rooms, furniture, rng)
       IN  furniture' = b.val /\ rng' = b.rng
    /\ pc' = "built"
    /\ UNCHANGED <<winsound_loaded, seed, clues_found, rooms, result, prev, fill>>

\* the program is run again: a new process, whose generator starts anywhere
RunAgain ==
    /\ pc = "built"
    /\ prev' = <<Scenario>>
    /\ pc' = "main"
    /\ rng' \in RngStart
    /\ seed' = 0
    /\ clues_found' = 0
    /\ rooms' = <<>>
    /\ furniture' = <<>>
    /\ result' = NoResult
    /\ UNCHANGED <<winsound_loaded, fill>>

GenGameInit == \E sd \in 1..MaxGenSeed : GameInit(sd)

NextGen ==
    \/ GenGameInit
    \/ CallBuildRooms
    \/ CallLockRooms
    \/ CallFurnishRoomsSmart
    \/ CallBuildNotes
    \/ RunAgain

\* scenario generation alone, run after run
SpecGen == Init /\ [][NextGen]_vars

-----------------------------------------------------------------------------
(* The session: Game.start, get_input and the two explore operations *)

\* lines the player types at a "y/n: " prompt
Answers == {"y", "Y", "n"}

\* (in_value is "y") or (in_value is "Y")
IsYes(in_value) == in_value = "y" \/ in_value = "Y"

\* numbers get_input passes to explore_room (2 digits) and to
\* explore_furniture (3 digits, leading zeros allowed)
RoomInputs == RoomCodes \cup {10, 99}

FurnitureInputs == FurnitureCodes \cup {11, 314}

\* game.start(): the loop begins
Start ==
    /\ pc = "built"
    /\ pc' = "get_input"
    /\ UNCHANGED <<winsound_loaded, rng, seed, clues_found, rooms, furniture,
                   result, prev, fill>>

\* the lines explore_room reads for this room: one if the room is locked
RoomAnswers(room_number) ==
    IF room_number \in DOMAIN rooms /\ rooms[room_number].locked
    THEN {<<a>> : a \in Answers}
    ELSE {<<>>}

\* explore_room without "room.locked = False"
explore_room_keeps_locked(room_number, answers) ==
    /\ pc = "get_input"
    /\ pc' = "continue"
    /\ IF room_number \notin DOMAIN rooms
       THEN result' = [op |-> "explore_room", arg |-> room_number,
                       kind |-> "invalid", answers |-> answers]
       ELSE IF rooms[room_number].locked /\ ~IsYes(answers[1])
       THEN result' = [op |-> "explore_room", arg |-> room_number,
                       kind |-> "sorry", answers |-> answers]
       ELSE result' = [op |-> "explore_room", arg |-> room_number,
                       kind |-> "room", answers |-> answers]
    /\ UNCHANGED <<winsound_loaded, rng, seed, clues_found, rooms, furniture, prev, fill>>

\* Game.explore_room
explore_room(room_number, answers) ==
    /\ pc = "get_input"
    /\ pc' = "continue"
    /\ IF room_number \notin DOMAIN rooms
       THEN /\ result' = [op |-> "explore_room", arg |-> room_number,
                          kind |-> "invalid", answers |-> answers]
            /\ UNCHANGED rooms
       ELSE IF rooms[room_number].locked
       THEN IF IsYes(answers[1])
            THEN /\ rooms' = [rooms EXCEPT ![room_number].locked = FALSE]
                 /\ result' = [op |-> "explore_room", arg |-> room_number,
                               kind |-> "room", answers |-> answers]
            ELSE /\ result' = [op |-> "explore_room", arg |-> room_number,
                               kind |-> "sorry", answers |-> answers]
                 /\ UNCHANGED rooms
       ELSE /\ result' = [op |-> "explore_room", arg |-> room_number,
                          kind |-> "room", answers |-> answers]
            /\ UNCHANGED rooms
    /\ UNCHANGED <<winsound_loaded, rng, seed, clues_found, furniture, prev, fill>>

\* "if (note.item is not None)" and "if (note.person is not None)" under "if (note.ask)"
AsksItem(note) == note.ask /\ note.item # None

AsksPerson(note) == note.ask /\ note.person # None

\* the line read at the person prompt: the second if the item was asked first
PersonAnswer(note, answers) ==
    IF AsksItem(note) THEN answers[2] ELSE answers[1]

\* GatePassed without the "return" of the person prompt's else branch
GatePassedItemOnly(note, answers) ==
    IF AsksItem(note) /\ ~IsYes(answers[1]) THEN FALSE
    ELSE TRUE

\* the ask block lets the call go on: no prompt was answered with anything but y or Y
GatePassed(note, answers) ==
    IF AsksItem(note) /\ ~IsYes(answers[1]) THEN FALSE
    ELSE IF AsksPerson(note) /\ ~IsYes(PersonAnswer(note, answers)) THEN FALSE
    ELSE TRUE

\* the lines explore_furniture reads for this piece: none without an ask note;
\* else one per prompt, up to and including the first that is not a yes
FurnitureAnswers(furniture_number) ==
    IF \/ furniture_number \notin DOMAIN furniture
       \/ furniture[furniture_number].note = <<>>
    THEN {<<>>}
    ELSE LET note == furniture[furniture_number].note[1]
         IN  IF note.trapdoor \/ ~(AsksItem(note) \/ AsksPerson(note))
             THEN {<<>>}
             ELSE IF AsksItem(note) /\ AsksPerson(note)
             THEN {<<a>> : a \in {b \in Answers : ~IsYes(b)}}
                  \cup {<<a, b>> : a \in {c \in Answers : IsYes(c)}, b \in Answers}
             ELSE {<<a>> : a \in Answers}

\* NoteOutcome with the comparison of the clue counter turned round
NoteOutcomeInverted(note, answers) ==
    IF note.trapdoor THEN "trapdoor"
    ELSE IF ~GatePassed(note, answers) THEN "sorry"
    ELSE IF note.clue
         THEN IF clues_found > 10 THEN "found_clue" ELSE "take_clue"
    ELSE IF note.secret # <<>>
         THEN IF winsound_loaded THEN "secret" ELSE "NameError"
    ELSE IF note.look_in # NoCode THEN "look_in"
    ELSE IF note.not_in # NoCode THEN "not_in"
    ELSE IF note.money THEN "win"
    ELSE "no_clue"

\* NoteOutcome with the money branch ahead of the ask block
NoteOutcomeMoneyFirst(note, answers) ==
    IF note.trapdoor THEN "trapdoor"
    ELSE IF note.money THEN "win"
    ELSE IF ~GatePassed(note, answers) THEN "sorry"
    ELSE IF note.clue
         THEN IF clues_found < 10 THEN "found_clue" ELSE "take_clue"
    ELSE IF note.secret # <<>>
         THEN IF winsound_loaded THEN "secret" ELSE "NameError"
    ELSE IF note.look_in # NoCode THEN "look_in"
    ELSE IF note.not_in # NoCode THEN "not_in"
    ELSE "no_clue"

\* what explore_furniture reports for a piece that has a note
NoteOutcome(note, answers) ==
    IF note.trapdoor THEN "trapdoor"
    ELSE IF ~GatePassed(note, answers) THEN "sorry"
    ELSE IF note.clue
         THEN IF clues_found < 10 THEN "found_clue" ELSE "take_clue"
    ELSE IF note.secret # <<>>
         THEN IF winsound_loaded THEN "secret" ELSE "NameError"
    ELSE IF note.look_in # NoCode THEN "look_in"
    ELSE IF note.not_in # NoCode THEN "not_in"
    ELSE IF note.money THEN "win"
    ELSE "no_clue"

\* explore_furniture that looks the piece up with dict.get: an unknown code is
\* a piece without a note
explore_furniture_get(furniture_number, answers) ==
    /\ pc = "get_input"
    /\ LET kind ==
               IF furniture_number \notin DOMAIN furniture THEN "no_clue"
               ELSE IF furniture[furniture_number].note = <<>> THEN "no_clue"
               ELSE NoteOutcome(furniture[furniture_number].note[1], answers)
       IN  /\ result' = [op |-> "explore_furniture", arg |-> furniture_number,
                         kind |-> kind, answers |-> answers]
           /\ clues_found' = IF kind = "found_clue" THEN clues_found + 1
                             ELSE clues_found
           /\ furniture' = IF kind \in {"found_clue", "take_clue"}
                           THEN [furniture EXCEPT
                                     ![furniture_number].note[1].clue = FALSE]
                           ELSE furniture
           /\ pc' = IF kind = "NameError" THEN "crashed" ELSE "continue"
    /\ UNCHANGED <<winsound_loaded, rng, seed, rooms, prev, fill>>

\* explore_furniture without "note.clue = False"
explore_furniture_keeps_clue(furniture_number, answers) ==
    /\ pc = "get_input"
    /\ LET kind ==
               IF furniture_number \notin DOMAIN furniture THEN "invalid"
               ELSE IF furniture[furniture_number].note = <<>> THEN "no_clue"
               ELSE NoteOutcome(furniture[furniture_number].note[1], answers)
       IN  /\ result' = [op |-> "explore_furniture", arg |-> furniture_number,
                         kind |-> kind, answers |-> answers]
           /\ clues_found' = IF kind = "found_clue" THEN clues_found + 1
                             ELSE clues_found
           /\ pc' = IF kind = "NameError" THEN "crashed" ELSE "continue"
    /\ UNCHANGED <<winsound_loaded, rng, seed, rooms, furniture, prev, fill>>

\* explore_furniture with "furniture.note = None" in place of "note.clue = False"
explore_furniture_drops_note(furniture_number, answers) ==
    /\ pc = "get_input"
    /\ LET kind ==
               IF furniture_number \notin DOMAIN furniture THEN "invalid"
               ELSE IF furniture[furniture_number].note = <<>> THEN "no_clue"
               ELSE NoteOutcome(furniture[furniture_number].note[1], answers)
       IN  /\ result' = [op |-> "explore_furniture", arg |-> furniture_number,
                         kind |-> kind, answers |-> answers]
           /\ clues_found' = IF kind = "found_clue" THEN clues_found + 1
                             ELSE clues_found
           /\ furniture' = IF kind \in {"found_clue", "take_clue"}
                           THEN [furniture EXCEPT ![furniture_number].note = <<>>]
                           ELSE furniture
           /\ pc' = IF kind = "NameError" THEN "crashed" ELSE "continue"
    /\ UNCHANGED <<winsound_loaded, rng, seed, rooms, prev, fill>>

\* explore_furniture that looks for the room of the piece first and turns the
\* player away while that room is locked
explore_furniture_behind_lock(furniture_number, answers) ==
    /\ pc = "get_input"
    /\ LET room == find_furniture(rooms, furniture_number)
           kind ==
               IF furniture_number \notin DOMAIN furniture THEN "invalid"
               ELSE IF room # NoCode /\ rooms[room].locked THEN "sorry"
               ELSE IF furniture[furniture_number].note = <<>> THEN "no_clue"
               ELSE NoteOutcome(furniture[furniture_number].note[1], answers)
       IN  /\ result' = [op |-> "explore_furniture", arg |-> furniture_number,
                         kind |-> kind, answers |-> answers]
           /\ clues_found' = IF kind = "found_clue" THEN clues_found + 1
                             ELSE clues_found
           /\ furniture' = IF kind \in {"found_clue", "take_clue"}
                           THEN [furniture EXCEPT
                                     ![furniture_number].note[1].clue = FALSE]
                           ELSE furniture
           /\ pc' = IF kind = "NameError" THEN "crashed" ELSE "continue"
    /\ UNCHANGED <<winsound_loaded, rng, seed, rooms, prev, fill>>

\* Game.explore_furniture
explore_furniture(furniture_number, answers) ==
    /\ pc = "get_input"
    /\ LET kind ==
               IF furniture_number \notin DOMAIN furniture THEN "invalid"
               ELSE IF furniture[furniture_number].note = <<>> THEN "no_clue"
               ELSE NoteOutcome(furniture[furniture_number].note[1], answers)
       IN  /\ result' = [op |-> "explore_furniture", arg |-> furniture_number,
                         kind |-> kind, answers |-> answers]
           /\ clues_found' = IF kind = "found_clue" THEN clues_found + 1
                             ELSE clues_found
           /\ furniture' = IF kind \in {"found_clue", "take_clue"}
                           THEN [furniture EXCEPT
                                     ![furniture_number].note[1].clue = FALSE]
                           ELSE furniture
           \* winsound.Beep without winsound: the NameError ends the process
           /\ pc' = IF kind = "NameError" THEN "crashed" ELSE "continue"
    /\ UNCHANGED <<winsound_loaded, rng, seed, rooms, prev, fill>>

\* input("(Enter to continue.)"), then clear_screen() and the next get_input
Continue ==
    /\ pc = "continue"
    /\ pc' = "get_input"
    /\ result' = NoResult
    /\ UNCHANGED <<winsound_loaded, rng, seed, clues_found, rooms, furniture, prev, fill>>

PlayGameInit == \E sd \in 1..MaxPlaySeed : GameInit(sd)

\* get_input read a number of 2 digits
ExploreRoom ==
    /\ pc = "get_input"
    /\ \E room_number \in RoomInputs :
           \E answers \in RoomAnswers(room_number) :
               explore_room(room_number, answers)

\* get_input read a number of 3 digits
ExploreFurniture ==
    /\ pc = "get_input"
    /\ \E furniture_number \in FurnitureInputs :
           \E answers \in FurnitureAnswers(furniture_number) :
               explore_furniture(furniture_number, answers)

Next ==
    \/ PlayGameInit
    \/ CallBuildRooms
    \/ CallLockRooms
    \/ CallFurnishRoomsSmart
    \/ CallBuildNotes
    \/ Start
    \/ ExploreRoom
    \/ ExploreFurniture
    \/ Continue

\* one run of the program: the scenario is built, then the session is played
Spec == Init /\ [][Next]_vars

-----------------------------------------------------------------------------
(* Views of a built scenario used by the properties below *)

\* Game(seed) has returned and no operation of the session has run yet
Built == pc = "built"

HasNote(c) == furniture[c].note # <<>>

NoteOf(c) == furniture[c].note[1]

MoneyPieces == {c \in FurnitureCodes : HasNote(c) /\ NoteOf(c).money}

ClueOnlyPieces == {c \in FurnitureCodes : HasNote(c) /\ NoteOf(c).clue /\ ~NoteOf(c).ask}

TrapdoorPieces == {c \in FurnitureCodes : HasNote(c) /\ NoteOf(c).trapdoor}

SecretPieces == {c \in FurnitureCodes : HasNote(c) /\ NoteOf(c).secret # <<>>}

AskCluePieces == {c \in FurnitureCodes : HasNote(c) /\ NoteOf(c).clue /\ NoteOf(c).ask}

NotInPieces == {c \in FurnitureCodes : HasNote(c) /\ NoteOf(c).not_in # NoCode}

LookInPieces == {c \in FurnitureCodes : HasNote(c) /\ NoteOf(c).look_in # NoCode}

EmptyPieces == {c \in FurnitureCodes : ~HasNote(c)}

NoteKinds ==
    <<MoneyPieces, ClueOnlyPieces, TrapdoorPieces, SecretPieces,
      AskCluePieces, NotInPieces, LookInPieces, EmptyPieces>>

\* the rooms whose furniture list holds the piece
RoomsHolding(rms, c) == {rc \in RoomCodes : c \in Range(rms[rc].furniture)}

LockedRooms(rms) == {rc \in RoomCodes : rms[rc].locked}

-----------------------------------------------------------------------------
(* C1: after build_notes the 35 pieces are partitioned by note kind into   *)
(* 1 Money, 11 clue-only, 1 Trapdoor, 2 SecretHint, 1 ask+clue, 6 NotIn,   *)
(* 4 LookIn and 9 without a note: the kinds are pairwise disjoint and      *)
(* cover the catalog, so the 26 pops hit 26 different pieces.              *)
C1_NoteCounts ==
    Built =>
        /\ Cardinality(MoneyPieces) = 1
        /\ Cardinality(ClueOnlyPieces) = 11
        /\ Cardinality(TrapdoorPieces) = 1
        /\ Cardinality(SecretPieces) = 2
        /\ Cardinality(AskCluePieces) = 1
        /\ Cardinality(NotInPieces) = 6
        /\ Cardinality(LookInPieces) = 4
        /\ Cardinality(EmptyPieces) = 9
        /\ \A i, j \in 1..Len(NoteKinds) :
               i # j => NoteKinds[i] \cap NoteKinds[j] = {}
        /\ UNION Range(NoteKinds) = FurnitureCodes
        /\ Cardinality(FurnitureCodes) = 35

C1_Witness ==
    /\ Built
    /\ Cardinality({c \in FurnitureCodes : HasNote(c)}) = 26
    /\ LookInPieces # {}

(* C2: after furnish_rooms_smart the rooms' furniture lists partition the  *)
(* 35 codes: each code is in exactly one room and once in its list; every  *)
(* room holds 3 or 4 pieces and exactly one room holds 3.                  *)
C2_RoomsPartition ==
    pc \in {"build_notes", "built"} =>
        /\ \A c \in FurnitureCodes : Cardinality(RoomsHolding(rooms, c)) = 1
        /\ \A rc \in RoomCodes :
               /\ Range(rooms[rc].furniture) \subseteq FurnitureCodes
               /\ Cardinality(Range(rooms[rc].furniture)) = Len(rooms[rc].furniture)
               /\ Len(rooms[rc].furniture) \in {3, 4}
        /\ Cardinality({rc \in RoomCodes : Len(rooms[rc].furniture) = 3}) = 1

C2_Witness ==
    /\ pc = "build_notes"
    /\ \E rc \in RoomCodes : Len(rooms[rc].furniture) = 3
    /\ \E rc \in RoomCodes :
           rooms[rc].name = "Music Room" /\ Len(rooms[rc].furniture) = 4

(* C3: in a generated scenario room 11 is not locked and exactly 1 or      *)
(* exactly 2 of the other eight rooms are locked.                          *)
C3_LockedRooms ==
    pc \in {"furnish_rooms_smart", "build_notes", "built"} =>
        /\ ~rooms[11].locked
        /\ Cardinality(LockedRooms(rooms) \ {11}) \in {1, 2}

\* both counts happen: one run locked one room, the next one two
C3_Witness ==
    /\ Built
    /\ prev # <<>>
    /\ Cardinality(LockedRooms(prev[1].rooms)) = 1
    /\ Cardinality(LockedRooms(rooms)) = 2

\* the room a secret text names
SecretRoomName(c) == NoteOf(c).secret[2]

\* the name of the room that holds the money piece
MoneyRoomNames ==
    {rooms[rc].name : rc \in UNION {RoomsHolding(rooms, c) : c \in MoneyPieces}}

(* C4: neither SecretHint names the money room: the room named by each     *)
(* secret text is a room other than the one that holds the money piece.    *)
C4_SecretNotMoneyRoom ==
    Built =>
        \A c \in SecretPieces :
            /\ SecretRoomName(c) \in {rooms[rc].name : rc \in RoomCodes}
            /\ SecretRoomName(c) \notin MoneyRoomNames

C4_Witness ==
    /\ Built
    /\ Cardinality(SecretPieces) = 2
    /\ Cardinality(MoneyRoomNames) = 1
    /\ \E c, d \in SecretPieces : SecretRoomName(c) # SecretRoomName(d)

(* C5: no NotInHint refers to the piece that holds the Money note: each    *)
(* not_in target is a piece of the catalog other than the money piece.     *)
C5_NotInNotMoney ==
    Built =>
        \A c \in NotInPieces :
            /\ NoteOf(c).not_in \in FurnitureCodes
            /\ NoteOf(c).not_in \notin MoneyPieces

C5_Witness ==
    /\ Built
    /\ Cardinality(NotInPieces) = 6
    /\ Cardinality(MoneyPieces) = 1
    /\ Cardinality({NoteOf(c).not_in : c \in NotInPieces}) > 1

(* C7: generation is a function of the seed: a run of the program that     *)
(* builds its game with the seed of the previous run builds the same       *)
(* scenario (rooms, locked set, placement, notes), wherever the generator  *)
(* of module random stood when the process started.                        *)
C7_SameSeedSameScenario ==
    (Built /\ prev # <<>> /\ prev[1].seed = seed) => Scenario = prev[1]

C7_Witness ==
    /\ Built
    /\ prev # <<>>
    /\ prev[1].seed = seed
    /\ MoneyPieces # {}

-----------------------------------------------------------------------------
(* Views of a session *)

\* the session has begun: the process is in the loop of start, or died in it
InSession == pc \in {"get_input", "continue", "crashed"}

\* the pieces whose note has its clue flag set
CluePieces == {c \in FurnitureCodes : HasNote(c) /\ NoteOf(c).clue}

\* the pieces whose clue flag this step clears
Consumed ==
    {c \in FurnitureCodes :
        HasNote(c) /\ NoteOf(c).clue /\ ~(furniture[c].note[1].clue)'}

Min(a, b) == IF a < b THEN a ELSE b

(* C6: clues_found starts at 0; a step that consumes a set clue flag adds   *)
(* exactly 1 and reports "found a clue" while clues_found < 10, and leaves  *)
(* it at 10 and reports "take a clue" at 10; a step that changes no note    *)
(* and every step outside an operation leaves it alone.  So it never        *)
(* decreases, never exceeds 10, and equals the number of clue notes         *)
(* consumed (of the 12 built), capped at 10.                                *)
C6_ClueCounter ==
    /\ [](pc \in {"build_rooms", "lock_rooms", "furnish_rooms_smart",
                  "build_notes", "built"} => clues_found = 0)
    /\ [](clues_found \in 0..10)
    /\ [](InSession =>
            clues_found = Min(10, 12 - Cardinality(CluePieces)))
    /\ [][pc = "get_input" =>
            IF furniture' = furniture
            THEN /\ clues_found' = clues_found
                 /\ result'.kind \notin {"found_clue", "take_clue"}
            ELSE LET consumed == Consumed
                 IN  /\ consumed = {result'.arg}
                     /\ clues_found < 10 =>
                            /\ clues_found' = clues_found + 1
                            /\ result'.kind = "found_clue"
                     /\ clues_found = 10 =>
                            /\ clues_found' = 10
                            /\ result'.kind = "take_clue"]_vars
    /\ [][pc # "get_input" /\ pc # "main" => clues_found' = clues_found]_vars

\* the eleventh consumption: the counter is at 10 and a clue was just taken
C6_Witness ==
    /\ clues_found = 10
    /\ result.kind = "take_clue"
    /\ Cardinality(CluePieces) = 1

(* C8: revealing the Money note ends the game: once explore_furniture has   *)
(* reported the win, the session is over and nothing further happens.       *)
C8_WinEndsSession == [][result.kind = "win" => UNCHANGED vars]_vars

\* what a visit of the piece that answers yes to every prompt reports
RevealOnYes(c) == NoteOutcome(NoteOf(c), <<"y", "y">>)

(* C9: a visit of an ask-gated piece in which a prompt is answered with     *)
(* anything but yes reports "Sorry." and changes nothing: every note, every *)
(* locked flag and clues_found stay as they were, so what a later all-yes   *)
(* visit of any piece reveals is what it would have revealed before.        *)
C9_DeclineChangesNothing ==
    [][(/\ pc = "get_input"
        /\ result'.op = "explore_furniture"
        /\ \E i \in DOMAIN result'.answers : ~IsYes(result'.answers[i]))
       =>
       (/\ result'.kind = "sorry"
        /\ pc' = "continue"
        /\ furniture' = furniture
        /\ rooms' = rooms
        /\ clues_found' = clues_found
        /\ \A c \in FurnitureCodes :
               HasNote(c) => RevealOnYes(c)' = RevealOnYes(c))]_vars

\* the money piece, visited with yes to the item and no to the person
C9_Witness ==
    /\ result.op = "explore_furniture"
    /\ result.kind = "sorry"
    /\ result.answers = <<"y", "n">>
    /\ result.arg \in MoneyPieces
    /\ clues_found > 0

(* C10: explore_room with a number that is no room code and                 *)
(* explore_furniture with a number that is no furniture code report an      *)
(* invalid value and change no locked flag, no note and not clues_found;    *)
(* the session then goes on to the next input.                              *)
C10_InvalidCode ==
    /\ [][(/\ pc = "get_input"
           /\ \/ result'.op = "explore_room" /\ result'.arg \notin RoomCodes
              \/ result'.op = "explore_furniture" /\ result'.arg \notin FurnitureCodes)
          =>
          (/\ result'.kind = "invalid"
           /\ pc' = "continue"
           /\ rooms' = rooms
           /\ furniture' = furniture
           /\ clues_found' = clues_found)]_vars
    /\ [][result.kind = "invalid" =>
          (/\ pc' = "get_input"
           /\ rooms' = rooms
           /\ furniture' = furniture
           /\ clues_found' = clues_found)]_vars
    /\ [](result.kind = "invalid" => ENABLED Continue)

\* an unknown room number, after the session has changed some state
C10_Witness ==
    /\ result.kind = "invalid"
    /\ result.op = "explore_room"
    /\ result.arg \notin RoomCodes
    /\ clues_found > 0

-----------------------------------------------------------------------------
(* Consumed clues *)

\* a note none of whose kinds is set: what a clue-only note is once consumed
Kindless(note) ==
    /\ ~note.money
    /\ ~note.trapdoor
    /\ ~note.clue
    /\ note.secret = <<>>
    /\ note.not_in = NoCode
    /\ note.look_in = NoCode

(* C11: the step that reports "found a clue" or "take a clue" (the latter   *)
(* at clues_found = 10) clears the clue flag of the piece explored, which   *)
(* was set; no step of the session sets a clue flag again; and exploring a  *)
(* piece whose note has been emptied, whatever the answers, reports only    *)
(* "no clue" or "Sorry." and changes no note, no locked flag and not        *)
(* clues_found.                                                             *)
C11_ClueConsumedOnce ==
    /\ [][(pc = "get_input" /\ result'.kind \in {"found_clue", "take_clue"}) =>
            /\ result'.op = "explore_furniture"
            /\ \E c \in FurnitureCodes :
                   /\ result'.arg = c
                   /\ HasNote(c) /\ NoteOf(c).clue
                   /\ ~(furniture[c].note[1].clue)']_vars
    /\ [][(InSession /\ furniture' # furniture) =>
            \A c \in FurnitureCodes :
                (HasNote(c) /\ ~NoteOf(c).clue) =>
                    ~(furniture[c].note[1].clue)']_vars
    /\ [][(/\ pc = "get_input"
           /\ result'.op = "explore_furniture"
           /\ result'.arg \in FurnitureCodes
           /\ HasNote(result'.arg)
           /\ Kindless(NoteOf(result'.arg)))
          =>
          (/\ result'.kind \in {"no_clue", "sorry"}
           /\ furniture' = furniture
           /\ rooms' = rooms
           /\ clues_found' = clues_found)]_vars

\* the emptied ask+clue piece, visited again with yes to both prompts, after
\* a clue was taken with the counter at 10
C11_Witness ==
    /\ result.op = "explore_furniture"
    /\ result.kind = "no_clue"
    /\ result.answers = <<"y", "y">>
    /\ HasNote(result.arg)
    /\ Kindless(NoteOf(result.arg))
    /\ clues_found = 10
    /\ Cardinality(CluePieces) = 0

-----------------------------------------------------------------------------
(* Anchored and unassigned furniture *)

\* the codes in the rooms' furniture lists
PlacedCodes(rms) == UNION {Range(rms[rc].furniture) : rc \in RoomCodes}

\* the number of entries of the rooms' furniture lists
PlacedCount(rms) ==
    ForRange(LAMBDA n, k : n + Len(rms[room_numbers[k]].furniture),
             1, Len(room_numbers), 0)

\* furniture_to_use of furnish_rooms_smart once the used furniture is removed
Unassigned == RemoveUsed(furniture_keys, rooms, room_numbers)

\* build_rooms has run and furnish_rooms_smart has not
Anchored == pc \in {"lock_rooms", "furnish_rooms_smart"}

(* C12 (as amended): of the 35 furniture codes, exactly 18 are anchored to  *)
(* rooms by the templates of build_rooms, each once, and exactly 17 are     *)
(* left for furnish_rooms_smart once the anchored codes are removed.        *)
C12_AnchoredAndUnassigned ==
    Anchored =>
        /\ Len(furniture_keys) = 35
        /\ PlacedCount(rooms) = 18
        /\ Cardinality(PlacedCodes(rooms)) = 18
        /\ PlacedCodes(rooms) \subseteq FurnitureCodes
        /\ Len(Unassigned) = 17
        /\ Range(Unassigned) = FurnitureCodes \ PlacedCodes(rooms)

(* C12 as claimed: exactly 17 codes are anchored by the templates and       *)
(* exactly 18 remain unassigned.                                            *)
C12_AsClaimed ==
    Anchored =>
        /\ PlacedCount(rooms) = 17
        /\ Len(Unassigned) = 18

\* furnish_rooms_smart is about to run on the anchored rooms; both Dining
\* Room Chairs and the table are among the anchored codes
C12_Witness ==
    /\ pc = "furnish_rooms_smart"
    /\ {111, 112, 113} \subseteq PlacedCodes(rooms)
    /\ Len(Unassigned) = 17

-----------------------------------------------------------------------------
(* Targets of the LookIn hints *)

\* the pieces the LookIn notes point to
LookInTargets == {NoteOf(c).look_in : c \in LookInPieces}

(* C13: in a generated scenario each of the four LookInHint notes points to *)
(* one of the 11 pieces that hold a clue-only note; never to the money      *)
(* piece, the trapdoor piece, a hint piece, the ask+clue piece or a piece   *)
(* without a note.                                                          *)
C13_LookInTargetsHoldClues ==
    Built =>
        /\ Cardinality(LookInPieces) = 4
        /\ Cardinality(ClueOnlyPieces) = 11
        /\ LookInTargets \subseteq ClueOnlyPieces
        /\ LookInTargets \cap
               (MoneyPieces \cup TrapdoorPieces \cup SecretPieces \cup NotInPieces
                \cup LookInPieces \cup AskCluePieces \cup EmptyPieces) = {}

\* four hints that point to more than one piece of the pool
C13_Witness ==
    /\ Built
    /\ Cardinality(LookInPieces) = 4
    /\ Cardinality(LookInTargets) > 1
    /\ LookInTargets \subseteq ClueOnlyPieces

-----------------------------------------------------------------------------
(* What a session writes *)

\* this step leaves every field of every room but locked as it was
RoomsKeptButLocked ==
    \/ rooms' = rooms
    \/ /\ DOMAIN rooms' = DOMAIN rooms
       /\ \A rc \in DOMAIN rooms :
              [rooms'[rc] EXCEPT !.locked = rooms[rc].locked] = rooms[rc]

\* this step leaves every furniture and every note as it was, but for clue
\* flags that it clears
FurnitureKeptButClue ==
    \/ furniture' = furniture
    \/ /\ DOMAIN furniture' = DOMAIN furniture
       /\ \A c \in DOMAIN furniture :
              \/ furniture'[c] = furniture[c]
              \/ /\ HasNote(c)
                 /\ NoteOf(c).clue
                 /\ furniture'[c] = [furniture[c] EXCEPT !.note[1].clue = FALSE]

(* C14 (as amended): during play the only fields of the scenario that are   *)
(* written are Room.locked, the counter clues_found and the clue flag of a  *)
(* note, which is cleared when the clue is consumed; the seed, every other  *)
(* field of every room and of every furniture, and every other field of     *)
(* every note keep their generated values.                                  *)
C14_OnlyLockedCounterClue ==
    [][InSession =>
          /\ seed' = seed
          /\ RoomsKeptButLocked
          /\ FurnitureKeptButClue]_vars

(* C14 as claimed: during play Room.locked and clues_found are the only     *)
(* fields written; every field of every note keeps its generated value.     *)
C14_AsClaimed ==
    [][InSession =>
          /\ seed' = seed
          /\ RoomsKeptButLocked
          /\ furniture' = furniture]_vars

\* all three have been written: no room is locked any more, clues were
\* counted, and a clue-only note has been emptied
C14_Witness ==
    /\ InSession
    /\ LockedRooms(rooms) = {}
    /\ clues_found > 1
    /\ \E c \in FurnitureCodes : HasNote(c) /\ Kindless(NoteOf(c))

-----------------------------------------------------------------------------
(* Locked rooms *)

(* C15: explore_room of a locked room shows the room only when the key is   *)
(* confirmed, and then clears its locked flag; a visit that declines        *)
(* reports "Sorry." and leaves the room locked and everything else as it    *)
(* was; an unlocked room is shown without a prompt.  No step of a session   *)
(* sets a locked flag, so an unlocked room stays unlocked, and room 11 is   *)
(* unlocked in every reachable state.                                       *)
C15_LockedRoomProtocol ==
    /\ [][(pc = "get_input" /\ result'.op = "explore_room") =>
            \A rc \in RoomCodes :
                result'.arg = rc =>
                    /\ furniture' = furniture
                    /\ clues_found' = clues_found
                    /\ IF rooms[rc].locked
                       THEN /\ Len(result'.answers) = 1
                            /\ IF IsYes(result'.answers[1])
                               THEN /\ result'.kind = "room"
                                    /\ rooms' = [rooms EXCEPT ![rc].locked = FALSE]
                               ELSE /\ result'.kind = "sorry"
                                    /\ rooms' = rooms
                       ELSE /\ result'.answers = <<>>
                            /\ result'.kind = "room"
                            /\ rooms' = rooms]_vars
    /\ [][(InSession /\ rooms' # rooms) =>
            \A rc \in RoomCodes : ~rooms[rc].locked => ~rooms'[rc].locked]_vars
    /\ [](pc \notin {"main", "build_rooms"} => ~rooms[11].locked)

\* a locked room was opened with "Y" while another room is still locked
C15_Witness ==
    /\ result.op = "explore_room"
    /\ result.kind = "room"
    /\ result.answers = <<"Y">>
    /\ ~rooms[result.arg].locked
    /\ LockedRooms(rooms) # {}

-----------------------------------------------------------------------------
(* Anchor furniture *)

\* the codes the templates anchor
AnchorCodes == UNION {Range(room_names[i].furniture) : i \in 1..Len(room_names)}

\* the rooms that were made from the template
RoomsOfTemplate(rms, i) == {rc \in RoomCodes : rms[rc].name = room_names[i].name}

\* the piece is in the furniture list of the room
InRoom(rms, rc, c) == contains_furniture(rms[rc], c)

(* C16: whatever room code a template was given, once build_rooms has run   *)
(* exactly one room bears the template's name and its furniture list begins *)
(* with the template's anchor codes in template order; before               *)
(* furnish_rooms_smart the list is just the anchors, after it the list is   *)
(* the anchors followed by non-anchor codes only.  So 121 and 122 are       *)
(* always in the Living Room and 132, 133, 134, 141 always in the Kitchen.  *)
C16_AnchorsStay ==
    pc \in {"lock_rooms", "furnish_rooms_smart", "build_notes", "built"} =>
        /\ \A i \in 1..Len(room_names) :
               /\ Cardinality(RoomsOfTemplate(rooms, i)) = 1
               /\ \A rc \in RoomsOfTemplate(rooms, i) :
                      LET anchors == room_names[i].furniture
                          list == rooms[rc].furniture
                      IN  /\ Len(list) >= Len(anchors)
                          /\ SubSeq(list, 1, Len(anchors)) = anchors
                          /\ Anchored => list = anchors
                          /\ \A k \in (Len(anchors) + 1)..Len(list) :
                                 list[k] \in FurnitureCodes \ AnchorCodes
        /\ \A rc \in RoomCodes :
               /\ rooms[rc].name = "Living Room" =>
                      InRoom(rooms, rc, 121) /\ InRoom(rooms, rc, 122)
               /\ rooms[rc].name = "Kitchen" =>
                      \A c \in {132, 133, 134, 141} : InRoom(rooms, rc, c)

\* two runs gave the Kitchen different room codes, and the furnished Music
\* Room holds its piano and three pieces more
C16_Witness ==
    /\ Built
    /\ prev # <<>>
    /\ \E rc, rd \in RoomCodes :
           /\ rc # rd
           /\ rooms[rc].name = "Kitchen"
           /\ prev[1].rooms[rd].name = "Kitchen"
    /\ \E rc \in RoomCodes :
           /\ rooms[rc].name = "Music Room"
           /\ Len(rooms[rc].furniture) = 4
           /\ rooms[rc].furniture[1] = 213

-----------------------------------------------------------------------------
(* The gate of the secret notes *)

\* the prompts explore_furniture puts for the note
Prompts(note) ==
    (IF AsksItem(note) THEN {"item"} ELSE {}) \cup
    (IF AsksPerson(note) THEN {"person"} ELSE {})

(* C17: each of the two SecretHint notes has ask set and carries either an  *)
(* item and no person or a person and no item, so explore_furniture puts    *)
(* exactly one prompt for it: it reads one answer, goes on to the secret    *)
(* branch if that answer is a yes and reports "Sorry." otherwise.           *)
C17_SecretAsksOnce ==
    Built =>
        /\ Cardinality(SecretPieces) = 2
        /\ \A c \in SecretPieces :
               LET note == NoteOf(c)
               IN  /\ note.ask
                   /\ \/ note.item \in Range(items) /\ note.person = None
                      \/ note.item = None /\ note.person \in Range(people)
                   /\ Cardinality(Prompts(note)) = 1
                   /\ FurnitureAnswers(c) = {<<a>> : a \in Answers}
                   /\ \A a \in Answers :
                          IF IsYes(a)
                          THEN NoteOutcome(note, <<a>>) \in {"secret", "NameError"}
                          ELSE NoteOutcome(note, <<a>>) = "sorry"

\* both outcomes of the coin: one secret note asks for an item, the other
\* for a person
C17_Witness ==
    /\ Built
    /\ \E c, d \in SecretPieces :
           /\ Prompts(NoteOf(c)) = {"item"}
           /\ Prompts(NoteOf(d)) = {"person"}

-----------------------------------------------------------------------------
(* The win *)

\* the last operation explored a piece that holds the Money note
ExploredMoney ==
    /\ result.op = "explore_furniture"
    /\ result.arg \in FurnitureCodes
    /\ HasNote(result.arg)
    /\ NoteOf(result.arg).money

\* the last operation read a yes at the item prompt and a yes at the person prompt
YesYes ==
    /\ Len(result.answers) = 2
    /\ IsYes(result.answers[1])
    /\ IsYes(result.answers[2])

(* C18: the Money note asks for an item and for a person.  In every state   *)
(* of a session the win is the report of an explore_furniture of the money  *)
(* piece in which both prompts were answered yes, and of nothing else; the  *)
(* money piece explored with any other answers reports "Sorry.".            *)
C18_WinOnlyByMoneyYesYes ==
    /\ Built =>
           /\ Cardinality(MoneyPieces) = 1
           /\ \A c \in MoneyPieces :
                  /\ NoteOf(c).ask
                  /\ NoteOf(c).item \in Range(items)
                  /\ NoteOf(c).person \in Range(people)
    /\ result.kind = "win" => (ExploredMoney /\ YesYes)
    /\ ExploredMoney =>
           /\ Prompts(NoteOf(result.arg)) = {"item", "person"}
           /\ IF YesYes THEN result.kind = "win" ELSE result.kind = "sorry"

\* the win, after other pieces were explored
C18_Witness ==
    /\ result.kind = "win"
    /\ result.answers = <<"Y", "y">>
    /\ result.arg \in MoneyPieces
    /\ clues_found > 0

-----------------------------------------------------------------------------
(* Kinds of a note *)

\* the kinds set on the note
KindsOf(note) ==
    (IF note.money THEN {"money"} ELSE {}) \cup
    (IF note.trapdoor THEN {"trapdoor"} ELSE {}) \cup
    (IF note.clue THEN {"clue"} ELSE {}) \cup
    (IF note.secret # <<>> THEN {"secret"} ELSE {}) \cup
    (IF note.not_in # NoCode THEN {"not_in"} ELSE {}) \cup
    (IF note.look_in # NoCode THEN {"look_in"} ELSE {})

\* the number of kinds set on the note
KindCount(note) ==
    (IF note.money THEN 1 ELSE 0) + (IF note.trapdoor THEN 1 ELSE 0)
    + (IF note.clue THEN 1 ELSE 0) + (IF note.secret # <<>> THEN 1 ELSE 0)
    + (IF note.not_in # NoCode THEN 1 ELSE 0)
    + (IF note.look_in # NoCode THEN 1 ELSE 0)

(* C19: in every state in which the notes exist, after generation and after *)
(* any sequence of explore operations, every note has at most one of the    *)
(* kinds money, trapdoor, clue, secret, not_in, look_in set.                *)
C19_AtMostOneKind ==
    (Built \/ InSession) =>
        \A c \in FurnitureCodes :
            LET note == furniture[c].note
            IN  note # <<>> => KindCount(note[1]) <= 1

\* a clue was just found: the note explored has no kind left, the other
\* notes have theirs
C19_Witness ==
    /\ result.kind = "found_clue"
    /\ KindsOf(NoteOf(result.arg)) = {}
    /\ \E c \in FurnitureCodes : HasNote(c) /\ KindsOf(NoteOf(c)) = {"money"}
    /\ \E c \in FurnitureCodes : HasNote(c) /\ KindsOf(NoteOf(c)) = {"clue"}

-----------------------------------------------------------------------------
(* furnish_rooms_smart, its loop followed sweep by sweep.  The shuffle of   *)
(* rooms_to_use is left open: it gives any order of the rooms.  Which room  *)
(* takes a piece depends on the lengths of the lists alone, so the shuffle  *)
(* of furniture_to_use is the generator's.                                  *)

\* random.shuffle(x) whose draws were js: for i from the last position down to
\* the second, x[i] and x[js[i]] change places
ShuffleBy(x, js) ==
    ForRange(LAMBDA s, k :
                 LET i == Len(x) - k + 1
                 IN  [s EXCEPT ![i] = s[js[i]], ![js[i]] = s[i]],
             1, Len(x) - 1, x)

\* the process starts; audio and the generator's first state play no part here
InitFill == Init /\ ~winsound_loaded /\ rng = 0

FillGameInit == GameInit(1)

\* furnish_rooms_smart up to the second shuffle: the used furniture is
\* removed, furniture_to_use is shuffled
FillShuffleFurniture ==
    /\ pc = "furnish_rooms_smart"
    /\ LET furniture_to_use == RandomShuffle(Unassigned, rng)
       IN  /\ rng' = furniture_to_use.rng
           /\ fill' = [furniture_to_use |-> furniture_to_use.val,
                       rooms_to_use |-> room_numbers]
    /\ pc' = "shuffle_rooms"
    /\ UNCHANGED <<winsound_loaded, seed, clues_found, rooms, furniture,
                   result, prev>>

\* random.shuffle(rooms_to_use): the draw for position i is any position up to i
FillShuffleRooms ==
    /\ pc = "shuffle_rooms"
    /\ \E j9 \in 1..9, j8 \in 1..8, j7 \in 1..7, j6 \in 1..6 :
           \E j5 \in 1..5, j4 \in 1..4, j3 \in 1..3, j2 \in 1..2 :
               fill' = [fill EXCEPT !.rooms_to_use =
                            ShuffleBy(@, <<1, j2, j3, j4, j5, j6, j7, j8, j9>>)]
    /\ pc' = "fill_loop"
    /\ UNCHANGED <<winsound_loaded, rng, seed, clues_found, rooms, furniture,
                   result, prev>>

\* what one pass of "for room in rooms_to_use" makes of the rooms and the list
SweepResult ==
    Sweep([rooms |-> rooms, furniture_to_use |-> fill.furniture_to_use],
          fill.rooms_to_use)

\* "while (len(furniture_to_use) > 0)" holds: one pass over rooms_to_use
FillSweep ==
    /\ pc = "fill_loop"
    /\ Len(fill.furniture_to_use) > 0
    /\ LET st == SweepResult
       IN  /\ rooms' = st.rooms
           /\ fill' = [fill EXCEPT !.furniture_to_use = st.furniture_to_use]
    /\ UNCHANGED <<pc, winsound_loaded, rng, seed, clues_found, furniture,
                   result, prev>>

\* the list is empty: the loop ends and furnish_rooms_smart returns
FillReturn ==
    /\ pc = "fill_loop"
    /\ Len(fill.furniture_to_use) = 0
    /\ fill' = <<>>
    /\ pc' = "build_notes"
    /\ UNCHANGED <<winsound_loaded, rng, seed, clues_found, rooms, furniture,
                   result, prev>>

NextFill ==
    \/ FillGameInit
    \/ CallBuildRooms
    \/ CallLockRooms
    \/ FillShuffleFurniture
    \/ FillShuffleRooms
    \/ FillSweep
    \/ FillReturn

\* generation with the fill loop in steps
SpecFill == InitFill /\ [][NextFill]_vars

\* the room left under the cap of 4 pieces
FreeCapacity(rms) ==
    ForRange(LAMBDA n, k : n + (4 - Len(rms[room_numbers[k]].furniture)),
             1, Len(room_numbers), 0)

(* C20: the fill loop of furnish_rooms_smart ends whatever order the rooms   *)
(* are swept in: in every state of the loop no room is over the cap of 4,   *)
(* the free capacity of the rooms under the cap is not smaller than the     *)
(* number of codes left, and, while codes are left, the next sweep places   *)
(* at least one.  The number of codes left thus falls with every sweep      *)
(* until the list is empty.                                                 *)
C20_FillLoopTerminates ==
    pc = "fill_loop" =>
        /\ \A rc \in RoomCodes : Len(rooms[rc].furniture) <= 4
        /\ FreeCapacity(rooms) >= Len(fill.furniture_to_use)
        /\ Len(fill.furniture_to_use) > 0 =>
               Len(SweepResult.furniture_to_use) < Len(fill.furniture_to_use)

\* the loop has ended after a sweep that left the Kitchen, which was first in
\* rooms_to_use, at its four anchors
C20_Witness ==
    /\ pc = "fill_loop"
    /\ Len(fill.furniture_to_use) = 0
    /\ rooms[fill.rooms_to_use[1]].name = "Kitchen"
    /\ Cardinality({rc \in RoomCodes : Len(rooms[rc].furniture) = 3}) = 1

-----------------------------------------------------------------------------
(* The rooms furnish_rooms_smart leaves *)

\* the rooms exist: build_rooms has run
RoomsBuilt == pc \notin {"main", "build_rooms"}

\* furnish_rooms_smart has returned
Furnished == pc = "build_notes"

\* the names of the templates of build_rooms with n pieces
TemplatesWith(n) ==
    {room_names[i].name : i \in {k \in 1..Len(room_names) :
                                     Len(room_names[k].furniture) = n}}

\* the rooms that hold n pieces
RoomsWith(n) == {rc \in RoomCodes : Len(rooms[rc].furniture) = n}

(* C21: when furnish_rooms_smart has returned, exactly one room holds 3     *)
(* pieces and it is the Music Room, the Study or the Library, which are the *)
(* templates with exactly one piece; the Living Room, Bed Room, Game Room,  *)
(* Dining Room, Gym and Kitchen hold exactly 4; and from build_rooms on the *)
(* Kitchen holds its four template pieces and nothing else.  This holds for *)
(* every order of rooms_to_use.                                             *)
C21_ShortRoomIsOneAnchor ==
    /\ TemplatesWith(1) = {"Music Room", "Study", "Library"}
    /\ RoomsBuilt =>
           \A rc \in RoomCodes :
               rooms[rc].name = "Kitchen" =>
                   rooms[rc].furniture = <<132, 133, 134, 141>>
    /\ Furnished =>
           /\ Cardinality(RoomsWith(3)) = 1
           /\ \A rc \in RoomsWith(3) :
                  rooms[rc].name \in {"Music Room", "Study", "Library"}
           /\ \A rc \in RoomCodes :
                  rooms[rc].name \in {"Living Room", "Bed Room", "Game Room",
                                      "Dining Room", "Gym", "Kitchen"} =>
                      Len(rooms[rc].furniture) = 4

\* furnish_rooms_smart has returned and the Library is the room with 3 pieces;
\* the Music Room and the Study took three pieces each
C21_Witness ==
    /\ Furnished
    /\ \E rc \in RoomsWith(3) : rooms[rc].name = "Library"
    /\ \A rc \in RoomCodes :
           rooms[rc].name \in {"Music Room", "Study"} =>
               /\ Len(rooms[rc].furniture) = 4
               /\ Cardinality(Range(rooms[rc].furniture) \ AnchorCodes) = 3

-----------------------------------------------------------------------------
(* explore_furniture and the locked flags *)

\* what explore_furniture reports, in this state, for this number and these
\* lines: read from the catalog, the note and the clue counter
Reported(furniture_number, answers) ==
    IF furniture_number \notin DOMAIN furniture THEN "invalid"
    ELSE IF ~HasNote(furniture_number) THEN "no_clue"
    ELSE NoteOutcome(NoteOf(furniture_number), answers)

\* the room of the piece is locked
BehindLock(c) == RoomsHolding(rooms, c) \cap LockedRooms(rooms) # {}

\* the pieces whose note asked for nothing and has given its clue away
ConsumedPieces ==
    {c \in FurnitureCodes : HasNote(c) /\ Kindless(NoteOf(c)) /\ ~NoteOf(c).ask}

\* a seed whose scenario puts the money piece, and a clue, in a locked room
LockedMoneySeed == 3

LockGameInit == GameInit(LockedMoneySeed)

NextLock ==
    \/ LockGameInit
    \/ CallBuildRooms
    \/ CallLockRooms
    \/ CallFurnishRoomsSmart
    \/ CallBuildNotes
    \/ Start
    \/ ExploreRoom
    \/ ExploreFurniture
    \/ Continue

\* one run of the program on that scenario
SpecLock == Init /\ [][NextLock]_vars

(* C22: explore_furniture does not read the locked flags.  What a call      *)
(* reports and how it changes the notes and clues_found is given by the     *)
(* note of the piece, the clue counter and the answers, whether the room of *)
(* the piece is locked or not, and the call changes no room; and of two     *)
(* states of a session that differ in locked flags alone (the states before *)
(* and after a room is unlocked) every call with the same answers reports   *)
(* the same in both.                                                        *)
C22_LockedFlagsNotRead ==
    /\ [][(pc = "get_input" /\ result'.op = "explore_furniture") =>
            \E c \in FurnitureInputs :
                /\ result'.arg = c
                /\ result'.kind = Reported(c, result'.answers)
                /\ rooms' = rooms
                /\ clues_found' = IF result'.kind = "found_clue"
                                  THEN clues_found + 1 ELSE clues_found
                /\ furniture' = IF result'.kind \in {"found_clue", "take_clue"}
                                THEN [furniture EXCEPT ![c].note[1].clue = FALSE]
                                ELSE furniture]_vars
    /\ [][(InSession /\ rooms' # rooms) =>
            /\ furniture' = furniture
            /\ clues_found' = clues_found
            /\ \A c \in FurnitureInputs :
                   /\ FurnitureAnswers(c)' = FurnitureAnswers(c)
                   /\ \A answers \in FurnitureAnswers(c) :
                          Reported(c, answers)' = Reported(c, answers)]_vars

\* the money was just won in a room that is still locked, after a clue was
\* consumed in a room that is still locked
C22_Witness ==
    /\ result.op = "explore_furniture"
    /\ result.kind = "win"
    /\ BehindLock(result.arg)
    /\ \E c \in ConsumedPieces : BehindLock(c)

====
